---------------------------- MODULE Spec2Model ----------------------------
(***************************************************************************)
(* A model of tunnel_maker.py: one sequential process that resolves API    *)
(* credentials, resolves the head node of two jobs through a paginated     *)
(* REST endpoint, opens and tests two SSH connections, distributes a       *)
(* freshly generated keypair and writes a tunnel script.                   *)
(*                                                                         *)
(* The process environment (environment variables, the API configuration   *)
(* file, what the REST server lists for each job) is chosen by Init and    *)
(* never changes.  The files on the remote hosts outlive a run of the      *)
(* process; everything else is reset when the process is started again.    *)
(*                                                                         *)
(* Python's None is the empty sequence and a present value x is <<x>>.     *)
(***************************************************************************)
EXTENDS Integers, Sequences, FiniteSets, TLC

None == <<>>
Some(x) == <<x>>

(* Bounds of the model *)
MaxPages == 2
MaxPerPage == 2
MaxRuns == 2

(* chmod 775, line 328 *)
ScriptMode == 775

VARIABLES
    (* the world the process runs in *)
    environ,          \* os.environ: variable name -> None | Some(value)
    config_file,      \* the file cl_args.api_config_file and the profile section in it
    server,           \* job -> the pages the instances endpoint serves for it
    (* files on the remote hosts, kept across runs *)
    home_key,         \* host -> ~/tunnel_maker_private_key.pem : None | Some(key id)
    authorized_keys,  \* host -> lines of ~/.ssh/authorized_keys
    tunnel_script,    \* host -> lines of ~/create_ssh_tunnel.sh
    script_mode,      \* host -> mode of ~/create_ssh_tunnel.sh set by chmod : None | Some(mode)
    keys_generated,   \* number of RSA keys generated so far (a fresh key per call)
    setup_calls,      \* number of calls of setup_tunnel so far, over all runs
    setup_returns,    \* number of those calls that returned normally
    (* one run of the process *)
    runs,             \* number of the current run
    pc,               \* index of main's current call in MainSequence
    step,             \* position inside the current call
    exit_code,        \* None while running | Some(exit code)
    api_key,          \* None | Some(key)
    api_base_url,
    config_read,      \* get_api_key_from_config_file was entered in this run
    results,          \* get_all_result_pages: results
    response_next,    \* get_all_result_pages: response.json()["next"]
    requested,        \* job -> the pages requested by GET so far in this run
    head_node,        \* job -> what get_head_node returned: None | Some(instance)
    con,              \* job -> "absent" | "created" | "open" | "closed"
    close_calls,      \* job -> number of calls of close() on its connection
    tempdir,          \* "none" | "exists" | "deleted"
    local_files,      \* the key files in the temporary directory
    key,              \* the in-memory key of setup_tunnel: None | Some(key id)
    log               \* what this run did on the connections and with the key, in order

world == <<environ, config_file, server>>
remote == <<home_key, authorized_keys, tunnel_script, script_mode>>
counters == <<keys_generated, setup_calls, setup_returns>>
control == <<runs, pc, step, exit_code>>
profile == <<api_key, api_base_url, config_read>>
paging == <<results, response_next, requested, head_node>>
ssh == <<con, close_calls>>
keypair == <<tempdir, local_files, key>>
vars == <<world, remote, counters, control, profile, paging, ssh, keypair, log>>

Jobs == {1, 2}

(***************************************************************************)
(* The REST server.  An instance is identified by its public IP; the k-th  *)
(* instance of job j has the IP <<j, k>>.  A page is the JSON body         *)
(* {results, next}; the URL of a page is its index, and every page but     *)
(* the last links to the following one.                                    *)
(***************************************************************************)
RoleValues == {Some("MPI_MASTER"), Some("MPI_SLAVE"), None}

SeqsUpTo(S, n) == UNION {[1..m -> S] : m \in 0..n}

RolePages == UNION {[1..n -> SeqsUpTo(RoleValues, MaxPerPage)] : n \in 1..MaxPages}

RECURSIVE InstancesBefore(_, _)
InstancesBefore(rp, i) ==
    IF i <= 1 THEN 0 ELSE InstancesBefore(rp, i - 1) + Len(rp[i - 1])

Listing(j, rp) ==
    [i \in 1..Len(rp) |->
        [results |-> [k \in 1..Len(rp[i]) |->
                         [publicIp |-> <<j, InstancesBefore(rp, i) + k>>,
                          role |-> rp[i][k]]],
         next |-> IF i < Len(rp) THEN Some(i + 1) ELSE None]]

Hosts == {<<j, k>> : j \in Jobs, k \in 1..(MaxPages * MaxPerPage)}

(* The listings the whole workflow is run against. *)
MainRolePages ==
    { << <<>> >>,
      << <<None>> >>,
      << <<Some("MPI_SLAVE")>>, <<Some("MPI_MASTER")>> >>,
      << <<Some("MPI_SLAVE"), Some("MPI_SLAVE")>> >> }

(***************************************************************************)
(* Credentials                                                             *)
(***************************************************************************)
EnvVarOrder == <<"RESCALE_API_US_PROD", "RESCALE_API_KEY">>

CliBaseUrl == "https://platform.rescale.com"

AllEnviron ==
    {[RESCALE_API_US_PROD |-> a, RESCALE_API_KEY |-> b] :
        a \in {None, Some(""), Some("kUS")}, b \in {None, Some(""), Some("kKEY")}}

(* The configuration file: whether it is a file, whether it holds the      *)
(* section of cl_args.api_profile, and the keys of that section.           *)
ConfigKeys == {"apikey", "apibaseurl"}

ConfigFiles ==
    {[is_file |-> FALSE, has_section |-> FALSE, keys |-> {}],
     [is_file |-> TRUE, has_section |-> FALSE, keys |-> {}]}
    \cup {[is_file |-> TRUE, has_section |-> TRUE, keys |-> ks] : ks \in SUBSET ConfigKeys}

(* for envvar in (...): os.environ.get(envvar); first one that is not None *)
RECURSIVE FirstSetFrom(_, _, _)
FirstSetFrom(env, order, i) ==
    IF i > Len(order) THEN None
    ELSE IF env[order[i]] # None THEN env[order[i]]
    ELSE FirstSetFrom(env, order, i + 1)

get_api_key_from_envvar_swapped(env) ==
    FirstSetFrom(env, <<"RESCALE_API_KEY", "RESCALE_API_US_PROD">>, 1)

get_api_key_from_envvar(env) == FirstSetFrom(env, EnvVarOrder, 1)

(* What get_api_key_from_config_file does with the file: how it ends and   *)
(* what it returns.                                                        *)
get_api_key_from_config_file_noexit(cfg) ==
    IF ~cfg.is_file THEN [end |-> "FileNotFoundError", api_key |-> None, api_base_url |-> ""]
    ELSE IF ~cfg.has_section THEN [end |-> "KeyError", api_key |-> None, api_base_url |-> ""]
    ELSE [end |-> "return",
          api_key |-> IF "apikey" \in cfg.keys THEN Some("kCFG") ELSE None,
          api_base_url |-> IF "apibaseurl" \in cfg.keys THEN "https://cfg.example" ELSE ""]

get_api_key_from_config_file(cfg) ==
    IF ~cfg.is_file THEN [end |-> "FileNotFoundError", api_key |-> None, api_base_url |-> ""]
    ELSE IF ~cfg.has_section THEN [end |-> "KeyError", api_key |-> None, api_base_url |-> ""]
    ELSE IF ~(ConfigKeys \subseteq cfg.keys)
         THEN [end |-> "sys.exit(1)", api_key |-> None, api_base_url |-> ""]
    ELSE [end |-> "return", api_key |-> Some("kCFG"), api_base_url |-> "https://cfg.example"]

(***************************************************************************)
(* main: the calls it makes, in order.                                     *)
(***************************************************************************)
MainSequence_connect_early ==
    << [call |-> "get_api_profile", job |-> 0],
       [call |-> "get_head_node", job |-> 1],
       [call |-> "connect_to_instance", job |-> 1],
       [call |-> "get_head_node", job |-> 2],
       [call |-> "connect_to_instance", job |-> 2],
       [call |-> "test_ssh_connection", job |-> 1],
       [call |-> "test_ssh_connection", job |-> 2],
       [call |-> "setup_tunnel", job |-> 0],
       [call |-> "close", job |-> 1],
       [call |-> "close", job |-> 2],
       [call |-> "DONE", job |-> 0] >>

MainSequence_untested_job2 ==
    << [call |-> "get_api_profile", job |-> 0],
       [call |-> "get_head_node", job |-> 1],
       [call |-> "get_head_node", job |-> 2],
       [call |-> "connect_to_instance", job |-> 1],
       [call |-> "connect_to_instance", job |-> 2],
       [call |-> "test_ssh_connection", job |-> 1],
       [call |-> "setup_tunnel", job |-> 0],
       [call |-> "test_ssh_connection", job |-> 2],
       [call |-> "close", job |-> 1],
       [call |-> "close", job |-> 2],
       [call |-> "DONE", job |-> 0] >>

MainSequence ==
    << [call |-> "get_api_profile", job |-> 0],
       [call |-> "get_head_node", job |-> 1],
       [call |-> "get_head_node", job |-> 2],
       [call |-> "connect_to_instance", job |-> 1],
       [call |-> "connect_to_instance", job |-> 2],
       [call |-> "test_ssh_connection", job |-> 1],
       [call |-> "test_ssh_connection", job |-> 2],
       [call |-> "setup_tunnel", job |-> 0],
       [call |-> "close", job |-> 1],
       [call |-> "close", job |-> 2],
       [call |-> "DONE", job |-> 0] >>

(* setup_tunnel: its steps, in order. *)
SetupSequence_append_in_scope ==
    <<"TemporaryDirectory", "create_temp_ssh_keypair", "append_authorized_keys",
      "put_private_key", "write_script", "chmod">>

SetupSequence ==
    <<"TemporaryDirectory", "create_temp_ssh_keypair", "put_private_key",
      "append_authorized_keys", "write_script", "chmod">>

Entry(call) ==
    CASE call = "get_api_profile" -> "get_api_key_from_envvar"
      [] call = "get_head_node" -> "first_get"
      [] call = "setup_tunnel" -> SetupSequence[1]
      [] OTHER -> "call"

Running == exit_code = None
Call == MainSequence[pc].call
Job == MainSequence[pc].job

(* the control state once the current call of main has returned *)
Return ==
    /\ pc' = pc + 1
    /\ step' = Entry(MainSequence[pc + 1].call)
    /\ exit_code' = exit_code

(* the control state when the process ends with sys.exit(1) or an uncaught *)
(* exception (the interpreter exits with code 1 in both cases)             *)
Die ==
    /\ pc' = pc
    /\ step' = step
    /\ exit_code' = Some(1)

(***************************************************************************)
(* get_api_profile                                                         *)
(***************************************************************************)
GetApiKeyFromEnvvar ==
    /\ Running /\ Call = "get_api_profile" /\ step = "get_api_key_from_envvar"
    /\ api_key' = get_api_key_from_envvar(environ)
    /\ api_base_url' = CliBaseUrl
    /\ IF api_key' = None
       THEN pc' = pc /\ step' = "get_api_key_from_config_file" /\ exit_code' = exit_code
       ELSE Return
    /\ UNCHANGED <<world, remote, counters, runs, config_read, paging, ssh, keypair, log>>

GetApiKeyFromConfigFile ==
    /\ Running /\ Call = "get_api_profile" /\ step = "get_api_key_from_config_file"
    /\ config_read' = TRUE
    /\ LET r == get_api_key_from_config_file(config_file) IN
        IF r.end = "return"
        THEN /\ api_key' = r.api_key
             /\ api_base_url' = r.api_base_url
             /\ Return
        ELSE /\ UNCHANGED <<api_key, api_base_url>>
             /\ Die
    /\ UNCHANGED <<world, remote, counters, runs, paging, ssh, keypair, log>>

(***************************************************************************)
(* Api.get_all_result_pages, Api.get_instances, Api.get_head_node          *)
(***************************************************************************)
(* while response.json()["next"] is not None *)
HasNextPage_never(next) == FALSE

HasNextPage(next) == next # None

(* results.extend(response.json()["results"]) *)
Extend(res, page_results) == res \o page_results

(* for instance in instances: if instance.get('role') == 'MPI_MASTER' *)
RECURSIVE FirstMaster(_, _)
FirstMaster(instances, i) ==
    IF i > Len(instances) THEN None
    ELSE IF instances[i].role = Some("MPI_MASTER") THEN Some(instances[i])
    ELSE FirstMaster(instances, i + 1)

SelectHeadNode_fallback(instances) ==
    IF Len(instances) = 1 \/ FirstMaster(instances, 1) = None
    THEN Some(instances[1])
    ELSE FirstMaster(instances, 1)

(* get_head_node on a list that is not empty *)
SelectHeadNode(instances) ==
    IF Len(instances) = 1 THEN Some(instances[1]) ELSE FirstMaster(instances, 1)

(* requests.get(url) and log_and_raise_for_status: the server answers the  *)
(* page, or a status that raises HTTPError.                                *)
Get(url) ==
    /\ requested' = [requested EXCEPT ![Job] = Append(@, url)]
    /\ \E status_ok \in BOOLEAN :
        IF status_ok
        THEN /\ results' = Extend(results, server[Job][url].results)
             /\ response_next' = server[Job][url].next
             /\ pc' = pc /\ step' = "while" /\ exit_code' = exit_code
        ELSE /\ UNCHANGED <<results, response_next>>
             /\ Die
    /\ UNCHANGED <<world, remote, counters, runs, profile, head_node, ssh, keypair, log>>

FirstGet ==
    /\ Running /\ Call = "get_head_node" /\ step = "first_get"
    /\ Get(1)

NextGet ==
    /\ Running /\ Call = "get_head_node" /\ step = "while"
    /\ HasNextPage(response_next)
    /\ Len(requested[Job]) < MaxPages + 1
    /\ Get(IF response_next = None THEN 1 ELSE response_next[1])

GetInstancesReturn ==
    /\ Running /\ Call = "get_head_node" /\ step = "while"
    /\ ~HasNextPage(response_next)
    /\ step' = "instances"
    /\ UNCHANGED <<world, remote, counters, runs, pc, exit_code, profile, paging, ssh,
                   keypair, log>>

GetHeadNode ==
    /\ Running /\ Call = "get_head_node" /\ step = "instances"
    /\ IF Len(results) = 0
       THEN UNCHANGED head_node /\ Die
       ELSE /\ head_node' = [head_node EXCEPT ![Job] = SelectHeadNode(results)]
            /\ Return
    /\ results' = <<>>
    /\ response_next' = None
    /\ UNCHANGED <<world, remote, counters, runs, profile, requested, ssh, keypair, log>>

(***************************************************************************)
(* The SSH connections.  A fabric Connection is opened by its first run or *)
(* put.  run and put either return or raise; a command that exits non-zero *)
(* raises unless warnings are enabled, and no call site enables them.      *)
(* test_ssh_connection reads result.ok, so both of its values are          *)
(* outcomes there.                                                         *)
(***************************************************************************)
Ev(op, j, ok, items) == [op |-> op, con |-> j, ok |-> ok, items |-> items]

NoHost == <<0, 0>>
PrivateKeyFile(k) == [kind |-> "private_key", key |-> k, host |-> NoHost]

authorized_keys_line_private(k) == [kind |-> "private_key", key |-> k, host |-> NoHost]

(* f'{key.get_name()} {key.get_base64()}' *)
authorized_keys_line(k) == [kind |-> "public_key_line", key |-> k, host |-> NoHost]

(* "#!/bin/bash\nssh -p {port} -i ~/{private_key_path.name} {user}@{host} -L ... -N -v" *)
tunnel_script_content(host2, fwd) ==
    << [kind |-> "#!/bin/bash", key |-> 0, host |-> NoHost],
       [kind |-> "ssh -i ~/tunnel_maker_private_key.pem -L " \o fwd \o " -N -v",
        key |-> 0, host |-> host2] >>

LocalPortForwarding == "47827:localhost:47827"

(* the public key the user configured on the platform, already authorized  *)
UserKeyLine == [kind |-> "public_key_line", key |-> 0, host |-> NoHost]

(* echo "..." >> file *)
AppendToFile_overwrite(file, lines) == lines

AppendToFile(file, lines) == file \o lines

ConHost(j) == head_node[j][1].publicIp

ConnectToInstance ==
    /\ Running /\ Call = "connect_to_instance"
    /\ IF head_node[Job] = None
       THEN UNCHANGED <<con, log>> /\ Die
       ELSE /\ con' = [con EXCEPT ![Job] = "created"]
            /\ log' = Append(log, Ev("Connection", Job, TRUE, <<>>))
            /\ Return
    /\ UNCHANGED <<world, remote, counters, runs, profile, paging, close_calls, keypair>>

TestOutcomes == {"unreachable", "ok", "not_ok", "raise"}

TestSshConnection ==
    /\ Running /\ Call = "test_ssh_connection"
    /\ \E o \in TestOutcomes :
        /\ con' = [con EXCEPT ![Job] = IF o = "unreachable" THEN @ ELSE "open"]
        /\ log' = Append(log, Ev("run_echo", Job, o = "ok", <<>>))
        /\ IF o = "ok" THEN Return ELSE Die
    /\ UNCHANGED <<world, remote, counters, runs, profile, paging, close_calls, keypair>>

(***************************************************************************)
(* setup_tunnel                                                            *)
(***************************************************************************)
SetupPos(s) == CHOOSE i \in 1..Len(SetupSequence) : SetupSequence[i] = s
LastSetupStep == SetupPos(step) = Len(SetupSequence)

(* the control state once the current step of setup_tunnel is done *)
StepDone ==
    /\ setup_returns' = IF LastSetupStep THEN setup_returns + 1 ELSE setup_returns
    /\ IF LastSetupStep
       THEN Return
       ELSE pc' = pc /\ step' = SetupSequence[SetupPos(step) + 1] /\ exit_code' = exit_code

StepRaises ==
    /\ setup_returns' = setup_returns
    /\ Die

InSetup(s) == Running /\ Call = "setup_tunnel" /\ step = s

CallOutcomes == {"ok", "raise"}

TemporaryDirectory ==
    /\ InSetup("TemporaryDirectory")
    /\ tempdir' = "exists"
    /\ setup_calls' = setup_calls + 1
    /\ StepDone
    /\ UNCHANGED <<world, remote, keys_generated, runs, profile, paging, ssh, local_files,
                   key, log>>

CreateTempSshKeypair ==
    /\ InSetup("create_temp_ssh_keypair")
    /\ keys_generated' = keys_generated + 1
    /\ key' = Some(keys_generated + 1)
    /\ local_files' = {"tunnel_maker_private_key.pem", "tunnel_maker_public_key.pub"}
    /\ log' = Append(log, Ev("create_temp_ssh_keypair", 0, TRUE, <<>>))
    /\ StepDone
    /\ UNCHANGED <<world, remote, setup_calls, runs, profile, paging, ssh, tempdir>>

(* con_job1.put(private_key_path), and the end of the with block *)
PutPrivateKey ==
    /\ InSetup("put_private_key")
    /\ \E o \in CallOutcomes :
        /\ log' = Append(log, Ev("put", 1, o = "ok", <<PrivateKeyFile(key[1])>>))
        /\ home_key' = IF o = "ok" THEN [home_key EXCEPT ![ConHost(1)] = key] ELSE home_key
        /\ IF o = "ok" THEN StepDone ELSE StepRaises
    /\ con' = [con EXCEPT ![1] = "open"]
    /\ tempdir' = "deleted"
    /\ local_files' = {}
    /\ UNCHANGED <<world, authorized_keys, tunnel_script, script_mode, keys_generated,
                   setup_calls, runs, profile, paging, close_calls, key>>

AppendAuthorizedKeys ==
    /\ InSetup("append_authorized_keys")
    /\ \E o \in CallOutcomes :
        /\ log' = Append(log, Ev("run_append_authorized_keys", 2, o = "ok",
                                 <<authorized_keys_line(key[1])>>))
        /\ authorized_keys' =
              IF o = "ok"
              THEN [authorized_keys EXCEPT
                       ![ConHost(2)] = AppendToFile(@, <<authorized_keys_line(key[1])>>)]
              ELSE authorized_keys
        /\ IF o = "ok" THEN StepDone ELSE StepRaises
    /\ con' = [con EXCEPT ![2] = "open"]
    /\ UNCHANGED <<world, home_key, tunnel_script, script_mode, keys_generated, setup_calls,
                   runs, profile, paging, close_calls, keypair>>

WriteScript ==
    /\ InSetup("write_script")
    /\ LET content == tunnel_script_content(ConHost(2), LocalPortForwarding) IN
       \E o \in CallOutcomes :
        /\ log' = Append(log, Ev("run_write_script", 1, o = "ok", content))
        /\ tunnel_script' =
              IF o = "ok"
              THEN [tunnel_script EXCEPT ![ConHost(1)] = AppendToFile(@, content)]
              ELSE tunnel_script
        /\ IF o = "ok" THEN StepDone ELSE StepRaises
    /\ con' = [con EXCEPT ![1] = "open"]
    /\ UNCHANGED <<world, home_key, authorized_keys, script_mode, keys_generated,
                   setup_calls, runs, profile, paging, close_calls, keypair>>

Chmod ==
    /\ InSetup("chmod")
    /\ \E o \in CallOutcomes :
        /\ log' = Append(log, Ev("run_chmod", 1, o = "ok", <<>>))
        /\ script_mode' =
              IF o = "ok" THEN [script_mode EXCEPT ![ConHost(1)] = Some(ScriptMode)]
              ELSE script_mode
        /\ IF o = "ok" THEN StepDone ELSE StepRaises
    /\ con' = [con EXCEPT ![1] = "open"]
    /\ UNCHANGED <<world, home_key, authorized_keys, tunnel_script, keys_generated,
                   setup_calls, runs, profile, paging, close_calls, keypair>>

(***************************************************************************)
(* the end of main, and the next run of the program                        *)
(***************************************************************************)
Close ==
    /\ Running /\ Call = "close"
    /\ con' = [con EXCEPT ![Job] = "closed"]
    /\ close_calls' = [close_calls EXCEPT ![Job] = @ + 1]
    /\ log' = Append(log, Ev("close", Job, TRUE, <<>>))
    /\ Return
    /\ UNCHANGED <<world, remote, counters, runs, profile, paging, keypair>>

Done ==
    /\ Running /\ Call = "DONE"
    /\ exit_code' = Some(0)
    /\ UNCHANGED <<world, remote, counters, runs, pc, step, profile, paging, ssh, keypair,
                   log>>

(* the state of a process that has just been started *)
RunStart ==
    /\ pc = 1
    /\ step = Entry(MainSequence[1].call)
    /\ exit_code = None
    /\ api_key = None
    /\ api_base_url = ""
    /\ config_read = FALSE
    /\ results = <<>>
    /\ response_next = None
    /\ requested = [j \in Jobs |-> <<>>]
    /\ head_node = [j \in Jobs |-> None]
    /\ con = [j \in Jobs |-> "absent"]
    /\ close_calls = [j \in Jobs |-> 0]
    /\ tempdir = "none"
    /\ local_files = {}
    /\ key = None
    /\ log = <<>>

NewRun ==
    /\ ~Running
    /\ runs < MaxRuns
    /\ runs' = runs + 1
    /\ pc' = 1
    /\ step' = Entry(MainSequence[1].call)
    /\ exit_code' = None
    /\ api_key' = None
    /\ api_base_url' = ""
    /\ config_read' = FALSE
    /\ results' = <<>>
    /\ response_next' = None
    /\ requested' = [j \in Jobs |-> <<>>]
    /\ head_node' = [j \in Jobs |-> None]
    /\ con' = [j \in Jobs |-> "absent"]
    /\ close_calls' = [j \in Jobs |-> 0]
    /\ tempdir' = "none"
    /\ local_files' = {}
    /\ key' = None
    /\ log' = <<>>
    /\ UNCHANGED <<world, remote, counters>>

InitWith(envs, cfgs, rolePages1, rolePages2) ==
    /\ environ \in envs
    /\ config_file \in cfgs
    /\ \E rp1 \in rolePages1, rp2 \in rolePages2 :
          server = [j \in Jobs |-> IF j = 1 THEN Listing(1, rp1) ELSE Listing(2, rp2)]
    /\ home_key = [h \in Hosts |-> None]
    /\ authorized_keys = [h \in Hosts |-> <<UserKeyLine>>]
    /\ tunnel_script = [h \in Hosts |-> <<>>]
    /\ script_mode = [h \in Hosts |-> None]
    /\ keys_generated = 0
    /\ setup_calls = 0
    /\ setup_returns = 0
    /\ runs = 1
    /\ RunStart

Init == InitWith(AllEnviron, ConfigFiles, MainRolePages, MainRolePages)

Next ==
    \/ GetApiKeyFromEnvvar
    \/ GetApiKeyFromConfigFile
    \/ FirstGet
    \/ NextGet
    \/ GetInstancesReturn
    \/ GetHeadNode
    \/ ConnectToInstance
    \/ TestSshConnection
    \/ TemporaryDirectory
    \/ CreateTempSshKeypair
    \/ PutPrivateKey
    \/ AppendAuthorizedKeys
    \/ WriteScript
    \/ Chmod
    \/ Close
    \/ Done
    \/ NewRun

Spec == Init /\ [][Next]_vars

OneInstance == { << <<None>> >> }

(* get_head_node alone, over every listing of job 1 within the bounds *)
KeyInEnviron == {[RESCALE_API_US_PROD |-> None, RESCALE_API_KEY |-> Some("kKEY")]}

InitApi == InitWith(KeyInEnviron, {[is_file |-> FALSE, has_section |-> FALSE, keys |-> {}]},
                    RolePages, OneInstance)

NextApi ==
    \/ GetApiKeyFromEnvvar
    \/ FirstGet
    \/ NextGet
    \/ GetInstancesReturn
    \/ GetHeadNode

SpecApi == InitApi /\ [][NextApi]_vars

(***************************************************************************)
(* Properties                                                              *)
(***************************************************************************)
RECURSIVE ConcatResults(_, _)
ConcatResults(pages, n) ==
    IF n = 0 THEN <<>> ELSE ConcatResults(pages, n - 1) \o pages[n].results

(* every instance the server lists for job j, in page order *)
AllInstances(j) == ConcatResults(server[j], Len(server[j]))

PosOf(call, j) ==
    CHOOSE i \in 1..Len(MainSequence) : MainSequence[i] = [call |-> call, job |-> j]

(* main's call has returned normally in this run *)
Returned(call, j) == pc > PosOf(call, j)

InInstances(j) == Call = "get_head_node" /\ Job = j /\ step = "instances"

(* C1: get_all_result_pages requests the pages in order, each once and     *)
(* none after the page whose next is null, and what it returns is the      *)
(* concatenation of the results of all pages in page order.                *)
C1_Pagination ==
    \A j \in Jobs :
        /\ Len(requested[j]) <= Len(server[j])
        /\ \A i \in DOMAIN requested[j] : requested[j][i] = i
        /\ InInstances(j) =>
              /\ results = AllInstances(j)
              /\ Len(requested[j]) = Len(server[j])
        /\ Returned("get_head_node", j) => Len(requested[j]) = Len(server[j])

C1_Witness ==
    /\ InInstances(1)
    /\ Len(server[1]) >= 2
    /\ Len(server[1][1].results) >= 1
    /\ Len(server[1][2].results) >= 2
    /\ Len(results) >= 3

Masters(ins) == {i \in DOMAIN ins : ins[i].role = Some("MPI_MASTER")}
Least(S) == CHOOSE i \in S : \A k \in S : i <= k

(* C2: get_head_node returns the only instance of a list of one, the first *)
(* MPI_MASTER of a longer list, and None for a longer list without one.    *)
C2_HeadNode ==
    \A j \in Jobs :
        Returned("get_head_node", j) =>
            LET ins == AllInstances(j) IN
            /\ Len(ins) >= 1
            /\ Len(ins) = 1 => head_node[j] = Some(ins[1])
            /\ (Len(ins) >= 2 /\ Masters(ins) # {}) =>
                  head_node[j] = Some(ins[Least(Masters(ins))])
            /\ (Len(ins) >= 2 /\ Masters(ins) = {}) => head_node[j] = None

C2_Witness ==
    /\ Returned("get_head_node", 1)
    /\ Len(AllInstances(1)) >= 3
    /\ Masters(AllInstances(1)) = {2, 3}
    /\ head_node[1] = Some(AllInstances(1)[2])

KeyKinds == {"private_key", "public_key_line"}

(* C3: private key material goes over the job1 connection only; the only   *)
(* key data sent over the job2 connection is the public key line of the    *)
(* run's key, in the command that appends it to authorized_keys; no host   *)
(* of job2 ever holds the private key file.                                *)
C3_PrivateKeyOnlyToJob1 ==
    /\ \A i \in DOMAIN log : \A n \in DOMAIN log[i].items :
          LET it == log[i].items[n] IN
          /\ it.kind = "private_key" => log[i].con = 1
          /\ (log[i].con = 2 /\ it.kind \in KeyKinds) =>
                /\ log[i].op = "run_append_authorized_keys"
                /\ it.kind = "public_key_line"
                /\ key = Some(it.key)
    /\ \A h \in Hosts :
          h[1] = 2 =>
             /\ home_key[h] = None
             /\ \A n \in DOMAIN authorized_keys[h] :
                   authorized_keys[h][n].kind = "public_key_line"

C3_Witness ==
    /\ \E i \in DOMAIN log : log[i].op = "put" /\ log[i].ok
    /\ \E i \in DOMAIN log : log[i].op = "run_append_authorized_keys" /\ log[i].ok
    /\ exit_code = Some(0)

(* C4: when the process has ended, no connection is left open and each     *)
(* connection that was opened has been closed exactly once.                *)
C4_ClosedOnEveryExit ==
    ~Running =>
        \A j \in Jobs :
            /\ con[j] # "open"
            /\ con[j] = "closed" => close_calls[j] = 1

(* C5: when the server lists no instance for one of the jobs, no           *)
(* connection is created or used in the run, and the process does not end  *)
(* with exit code 0.                                                       *)
C5_NoInstancesNoConnection ==
    (\E j \in Jobs : AllInstances(j) = <<>>) =>
        /\ \A j \in Jobs : con[j] = "absent"
        /\ log = <<>>
        /\ Call \in {"get_api_profile", "get_head_node"}
        /\ ~Running => exit_code = Some(1)

C5_Witness ==
    /\ AllInstances(2) = <<>>
    /\ head_node[1] # None
    /\ InInstances(2)
    /\ exit_code = Some(1)

InEnvvar == Call = "get_api_profile" /\ step = "get_api_key_from_envvar"
Consulted == config_read \/ (Call = "get_api_profile" /\ step = "get_api_key_from_config_file")

NonEmpty(v) == v # None /\ v # Some("")

ProfileLacksKey ==
    /\ \A v \in DOMAIN environ : environ[v] = None
    /\ config_file.is_file
    /\ config_file.has_section
    /\ ~(ConfigKeys \subseteq config_file.keys)

(* C7: when the credentials come from the configuration file and the       *)
(* profile lacks apikey or apibaseurl, the run ends with exit code 1       *)
(* there, and it requests nothing from the API and does nothing over SSH.  *)
C7_MissingKeyIsFatal ==
    ProfileLacksKey =>
        /\ \A j \in Jobs : requested[j] = <<>> /\ con[j] = "absent"
        /\ log = <<>>
        /\ ~InEnvvar => (Call = "get_api_profile" /\ (config_read => exit_code = Some(1)))

C7_Witness ==
    /\ ProfileLacksKey
    /\ config_file.keys = {"apikey"}
    /\ config_read
    /\ exit_code = Some(1)

KeypairOps == {"create_temp_ssh_keypair"}
StepOps == {"put", "run_append_authorized_keys", "run_write_script", "run_chmod"}

(* C8: the keypair is generated and the steps of setup_tunnel run only     *)
(* after the echo test succeeded on job1's connection and then on job2's;  *)
(* an echo test that does not succeed ends the run with exit code 1.       *)
C8_TestsGateSetup ==
    LET Tested(i) ==
            \E a \in 1..(i - 1), b \in 1..(i - 1) :
                /\ a < b
                /\ log[a] = Ev("run_echo", 1, TRUE, <<>>)
                /\ log[b] = Ev("run_echo", 2, TRUE, <<>>)
    IN /\ \A i \in DOMAIN log :
            /\ log[i].op \in (KeypairOps \cup StepOps) => Tested(i)
            /\ (log[i].op = "run_echo" /\ ~log[i].ok) =>
                  i = Len(log) /\ exit_code = Some(1)
       /\ tempdir # "none" => Tested(Len(log) + 1)

C8_Witness ==
    /\ \E i \in DOMAIN log : log[i].op = "run_chmod" /\ log[i].ok
    /\ exit_code = Some(0)

RECURSIVE Copies(_, _)
Copies(lines, n) == IF n = 0 THEN <<>> ELSE Copies(lines, n - 1) \o lines

(* C9 as stated: after setup_tunnel has run twice, job2's authorized_keys  *)
(* has gained two lines and job1's script has gained two lines.            *)
C9_TwoLinesEach ==
    (setup_calls = 2 /\ setup_returns = 2) =>
        \E h1 \in Hosts, h2 \in Hosts :
            /\ h1[1] = 1 /\ h2[1] = 2
            /\ Len(authorized_keys[h2]) = 1 + 2
            /\ Len(tunnel_script[h1]) = 2

(* C9, amended: after setup_tunnel has run n times against the same pair,  *)
(* job2's authorized_keys holds what it held before followed by n public   *)
(* key lines, one per run and each of that run's key, and job1's script    *)
(* holds n copies of the two lines of the script (the #!/bin/bash line and *)
(* the ssh line), 2n lines; no other file of that kind has changed.        *)
C9_AppendsPerRun ==
    (setup_calls = setup_returns /\ setup_returns >= 1) =>
        LET n == setup_returns IN
        \E h1 \in Hosts, h2 \in Hosts :
            /\ h1[1] = 1 /\ h2[1] = 2
            /\ authorized_keys[h2] =
                  <<UserKeyLine>> \o
                  [i \in 1..n |-> [kind |-> "public_key_line", key |-> i, host |-> NoHost]]
            /\ tunnel_script[h1] =
                  Copies(tunnel_script_content(h2, LocalPortForwarding), n)
            /\ Len(tunnel_script[h1]) = 2 * n
            /\ \A h \in Hosts \ {h2} : authorized_keys[h] = <<UserKeyLine>>
            /\ \A h \in Hosts \ {h1} : tunnel_script[h] = <<>>

C9_Witness ==
    /\ setup_calls = 2
    /\ setup_returns = 2
    /\ exit_code = Some(0)

StepOrder == <<"put", "run_append_authorized_keys", "run_write_script", "run_chmod">>
IsStepOp(e) == e.op \in StepOps

(* C10: the temporary directory exists only while the keypair is generated *)
(* and uploaded; it is gone, with the key files, when the upload has       *)
(* returned or raised, before anything runs on job2 and before the script  *)
(* is written; upload, append, script write and chmod run in this order,   *)
(* and a step that fails is the last one of the run.                       *)
C10_TempdirAndOrder ==
    LET ops == SelectSeq(log, IsStepOp) IN
    /\ tempdir = "exists" =>
          /\ Running /\ Call = "setup_tunnel"
          /\ step \in {"create_temp_ssh_keypair", "put_private_key"}
          /\ ops = <<>>
    /\ local_files # {} => tempdir = "exists"
    /\ ops # <<>> => tempdir = "deleted"
    /\ Len(ops) <= Len(StepOrder)
    /\ \A i \in DOMAIN ops :
          /\ ops[i].op = StepOrder[i]
          /\ i < Len(ops) => ops[i].ok
          /\ ~ops[i].ok => exit_code = Some(1)
    /\ (~Running \/ Returned("setup_tunnel", 0)) => (tempdir # "exists" /\ local_files = {})

C10_Witness ==
    /\ log # <<>>
    /\ log[Len(log)].op = "put"
    /\ ~log[Len(log)].ok
    /\ tempdir = "deleted"
    /\ exit_code = Some(1)

====
